---- MODULE Spec2Model ----
(***************************************************************************)
(* A model of the Design Builder plugin: the signal handler that creates   *)
(* a Design for each DesignJob (signals.py), the contributed action tags   *)
(* of design_builder/contrib/ext.py (lookup, connect_cable, next_prefix,   *)
(* bgp_peering), the Deployment model exercised by                         *)
(* tests/test_model_deployment.py and the signal handler that creates the  *)
(* statuses of design instances (signals.py).                              *)
(*                                                                         *)
(* Each subsystem has its own variables and its own specification; the     *)
(* variables of the other subsystems stay at their initial values.         *)
(***************************************************************************)
EXTENDS Integers, Sequences, FiniteSets, TLC

VARIABLES
    jobs,        \* Job table: job id -> "unsaved" or the job_class of the saved row
    designs,     \* Design table: sequence of rows [job |-> id]
    lastSave,    \* outcome of the last Job save (post_save receiver included)
    interfaces,  \* Interface table: set of rows [device, name]
    lastLookup,  \* outcome of the last LookupMixin call
    mi,          \* the interface ModelInstance the builder is working on
    cables,      \* Cable table: set of rows [a, b, status]
    lastCable,   \* outcome of the last evaluation of !connect_cable
    endpoints,   \* PeerEndpoint table: endpoint -> [exists, peering, peer]
    peerings,    \* Peering table: the pks of its rows
    pmi,         \* the Peering ModelInstance the builder is working on
    lastBgp,     \* outcome of the last evaluation of !bgp_peering
    prefixes,    \* Prefix table: set of rows [network, prefix_length]
    lastPrefix,  \* outcome of the evaluation of !next_prefix in progress
    deployments, \* Deployment table: set of rows [pk, design, name]
    lastDeployment, \* outcome of the last operation on a Deployment
    statuses,    \* Status table: set of rows [name, color, content_types]
    lastStatus   \* the last operation on the Status table, and the table before it

designVars == <<jobs, designs, lastSave>>
lookupVars == <<interfaces, lastLookup>>
cableVars == <<mi, cables, lastCable>>
bgpVars == <<endpoints, peerings, pmi, lastBgp>>
prefixVars == <<prefixes, lastPrefix>>
deploymentVars == <<deployments, lastDeployment>>
statusVars == <<statuses, lastStatus>>

vars == <<jobs, designs, lastSave, interfaces, lastLookup, mi, cables, lastCable,
          endpoints, peerings, pmi, lastBgp, prefixes, lastPrefix,
          deployments, lastDeployment, statuses, lastStatus>>

(***************************************************************************)
(* signals.py: create_design_model                                         *)
(***************************************************************************)

\* Number of Job rows.
NumJobs == 3

Jobs == 1..NumJobs

\* What Job.job_class can evaluate to: None (the class cannot be loaded), a
\* class that is no DesignJob, DesignJob itself, a subclass of DesignJob.
JobClasses == {"None", "PlainJob", "DesignJob", "MyDesign"}

\* issubclass(cls, DesignJob); a class is a subclass of itself.
IsDesignJobSubclass(cls) == cls \in {"DesignJob", "MyDesign"}

\* Design.objects.filter(job=j): the indexes of the matching rows.
DesignsOf(tbl, j) == {i \in 1..Len(tbl) : tbl[i].job = j}

\* A get_or_create that never looks first: a second save adds a second row.
Design_always_create(tbl, j) ==
    [table |-> Append(tbl, [job |-> j]), created |-> TRUE, error |-> "none"]

\* Design.objects.get_or_create(job=j): the table afterwards, the `created`
\* flag and the error raised, if any.
Design_get_or_create(tbl, j) ==
    LET n == Cardinality(DesignsOf(tbl, j)) IN
    IF n = 1 THEN [table |-> tbl, created |-> FALSE, error |-> "none"]
    ELSE IF n = 0
         THEN [table |-> Append(tbl, [job |-> j]), created |-> TRUE, error |-> "none"]
         ELSE [table |-> tbl, created |-> FALSE, error |-> "MultipleObjectsReturned"]

\* The receiver: `if instance.job_class and issubclass(instance.job_class, DesignJob)`.
create_design_model(tbl, cls, j) ==
    IF cls # "None" /\ IsDesignJobSubclass(cls)
    THEN Design_get_or_create(tbl, j)
    ELSE [table |-> tbl, created |-> FALSE, error |-> "none"]

\* job.save(): the row is written, post_save fires create_design_model.
SaveJob(j, cls) ==
    LET r == create_design_model(designs, cls, j) IN
    /\ jobs' = [jobs EXCEPT ![j] = cls]
    /\ designs' = r.table
    /\ lastSave' = [job |-> j, job_class |-> cls, created |-> r.created,
                    error |-> r.error, before |-> designs]

DesignInit ==
    /\ jobs = [j \in Jobs |-> "unsaved"]
    /\ designs = <<>>
    /\ lastSave = [job |-> 0, job_class |-> "None", created |-> FALSE,
                   error |-> "none", before |-> <<>>]

DesignNext ==
    \E j \in Jobs, cls \in JobClasses :
        SaveJob(j, cls) /\ UNCHANGED <<lookupVars, cableVars, bgpVars, prefixVars, deploymentVars, statusVars>>

(***************************************************************************)
(* contrib/ext.py: LookupMixin                                             *)
(***************************************************************************)

Devices == {"d1", "d2"}
Names == {"eth0", "eth1"}

\* The rows the Interface table can hold; (device, name) is unique.
InterfaceRows == [device : Devices, name : Names]

\* A value of a query dictionary. kind "absent": the key is not in the
\* dictionary; "str": a plain string; "ref": a ModelInstance (it has an
\* `instance` attribute); "obj": an ORM object.
Absent == [kind |-> "absent", v |-> ""]
Str(s) == [kind |-> "str", v |-> s]
Ref(s) == [kind |-> "ref", v |-> s]
Obj(s) == [kind |-> "obj", v |-> s]

\* The query dictionaries for interfaces: `device` is a reference to a
\* device ModelInstance or a Device object, `name` a string.
DeviceValues == {Absent} \cup {Ref(d) : d \in Devices \cup {"d9"}} \cup {Obj(d) : d \in Devices}
NameValues == {Absent} \cup {Str(n) : n \in Names}
Queries == [device : DeviceValues, name : NameValues]

\* `if hasattr(value, "instance"): query[key] = value.instance`
Unwrap(val) == IF val.kind = "ref" THEN Obj(val.v) ELSE val

\* The loop of lookup() over query.items(); the dictionary is changed in place.
UnwrapQuery(query) == [k \in DOMAIN query |-> Unwrap(query[k])]

\* The status every interface of the table has.
InterfaceStatus == "Active"

\* The value a query keyword is compared with: a column of the row, or the
\* name of the row's status for `status__name`.
Field(row, key) == IF key = "status__name" THEN InterfaceStatus ELSE row[key]

\* One keyword of queryset.get(**query) against one row. Only unwrapped
\* values reach the ORM.
KeyMatches(row, key, val) ==
    \/ val.kind = "absent"
    \/ val.kind \in {"str", "obj"} /\ Field(row, key) = val.v

\* queryset.filter(**query)
Filter(rows, query) == {r \in rows : \A k \in DOMAIN query : KeyMatches(r, k, query[k])}

\* A lookup that takes the first of several matches, as .filter().first() would.
lookup_first_match(rows, query) ==
    LET q == UnwrapQuery(query)
        m == Filter(rows, q) IN
    IF m = {}
    THEN [outcome |-> "DesignImplementationError", cause |-> "ObjectDoesNotExist",
          obj |-> {}, query |-> q, rows |-> rows]
    ELSE [outcome |-> "ok", cause |-> "none", obj |-> {CHOOSE r \in m : TRUE},
          query |-> q, rows |-> rows]

\* LookupMixin.lookup: queryset.get(**query), ObjectDoesNotExist and
\* MultipleObjectsReturned turned into DesignImplementationError.
lookup(rows, query) ==
    LET q == UnwrapQuery(query)
        m == Filter(rows, q) IN
    IF Cardinality(m) = 1
    THEN [outcome |-> "ok", cause |-> "none", obj |-> m, query |-> q, rows |-> rows]
    ELSE IF m = {}
         THEN [outcome |-> "DesignImplementationError", cause |-> "ObjectDoesNotExist",
               obj |-> {}, query |-> q, rows |-> rows]
         ELSE [outcome |-> "DesignImplementationError", cause |-> "MultipleObjectsReturned",
               obj |-> {}, query |-> q, rows |-> rows]

\* ContentType rows: the model class is None for a stale content type
\* (its model is no longer installed).
ContentTypes ==
    { [app_label |-> "dcim", model |-> "interface", model_class |-> "Interface"],
      [app_label |-> "legacy", model |-> "widget", model_class |-> "None"] }
AppLabels == {"dcim", "legacy", "nope"}
ModelNames == {"interface", "widget"}

\* ContentType.objects.get_by_natural_key(app_label, model_name)
get_by_natural_key(app_label, model_name) ==
    {ct \in ContentTypes : ct.app_label = app_label /\ ct.model = model_name}

\* The local names bound when the `except ContentType.DoesNotExist` handler
\* runs: get_by_natural_key raised on the first line of the try block, so
\* neither content_type nor model_class has been assigned.
LocalsInHandler == {"self", "app_label", "model_name", "query"}

\* LookupMixin.lookup_by_content_type. The handler formats `model_class`
\* into its message; reading an unassigned local raises UnboundLocalError.
lookup_by_content_type(rows, app_label, model_name, query) ==
    LET cts == get_by_natural_key(app_label, model_name) IN
    IF cts = {}
    THEN [outcome |-> IF "model_class" \in LocalsInHandler
                      THEN "DesignImplementationError"
                      ELSE "UnboundLocalError",
          cause |-> "ContentType.DoesNotExist", obj |-> {}, query |-> query, rows |-> rows]
    ELSE LET ct == CHOOSE c \in cts : TRUE IN
         IF ct.model_class = "None"
         THEN [outcome |-> "AttributeError", cause |-> "model_class() is None", obj |-> {},
               query |-> query, rows |-> rows]
         ELSE lookup(rows, query)

NoLookup ==
    [op |-> "none", outcome |-> "none", cause |-> "none", obj |-> {}, given |-> [device |-> Absent, name |-> Absent],
     query |-> [device |-> Absent, name |-> Absent], matched |-> 0, found_ct |-> FALSE,
     before |-> {}]

\* Interface.objects.create(device=d, name=n); the unique constraint
\* rejects a second row with the same device and name.
CreateInterface(d, n) ==
    /\ [device |-> d, name |-> n] \notin interfaces
    /\ interfaces' = interfaces \cup {[device |-> d, name |-> n]}
    /\ lastLookup' = NoLookup

DeleteInterface(row) ==
    /\ row \in interfaces
    /\ interfaces' = interfaces \ {row}
    /\ lastLookup' = NoLookup

\* self.lookup(Interface.objects, query)
Lookup(query) ==
    LET r == lookup(interfaces, query) IN
    /\ interfaces' = r.rows
    /\ lastLookup' = [op |-> "lookup", outcome |-> r.outcome, cause |-> r.cause,
                      obj |-> r.obj, given |-> query, query |-> r.query,
                      matched |-> Cardinality(Filter(interfaces, UnwrapQuery(query))),
                      found_ct |-> TRUE, before |-> interfaces]

\* self.lookup_by_content_type(app_label, model_name, query)
LookupByContentType(app_label, model_name, query) ==
    LET r == lookup_by_content_type(interfaces, app_label, model_name, query) IN
    /\ interfaces' = r.rows
    /\ lastLookup' = [op |-> "lookup_by_content_type", outcome |-> r.outcome,
                      cause |-> r.cause, obj |-> r.obj, given |-> query, query |-> r.query,
                      matched |-> Cardinality(Filter(interfaces, UnwrapQuery(query))),
                      found_ct |-> get_by_natural_key(app_label, model_name) # {},
                      before |-> interfaces]

LookupInit ==
    /\ interfaces = {}
    /\ lastLookup = NoLookup

LookupNext ==
    \/ \E d \in Devices, n \in Names :
          CreateInterface(d, n) /\ UNCHANGED <<designVars, cableVars, bgpVars, prefixVars, deploymentVars, statusVars>>
    \/ \E row \in InterfaceRows :
          DeleteInterface(row) /\ UNCHANGED <<designVars, cableVars, bgpVars, prefixVars, deploymentVars, statusVars>>
    \/ \E q \in Queries :
          Lookup(q) /\ UNCHANGED <<designVars, cableVars, bgpVars, prefixVars, deploymentVars, statusVars>>
    \/ \E app \in AppLabels, m \in ModelNames, q \in Queries :
          LookupByContentType(app, m, q) /\ UNCHANGED <<designVars, cableVars, bgpVars, prefixVars, deploymentVars, statusVars>>

(***************************************************************************)
(* contrib/ext.py: CableConnectionExtension                                *)
(***************************************************************************)

\* Cable rows the table may hold.
MaxCables == 2

\* The names of the Status rows.
Statuses == {"Active", "Planned"}

None == [kind |-> "none", v |-> ""]
Dict(s) == [kind |-> "dict", v |-> s]

\* The `status` entry of the tag's value: missing, None, a Status object, a
\* ModelInstance of a status, or a dictionary {"name": ...}.
StatusValues == {Absent, None, Obj("Planned"), Ref("Planned"), Dict("Planned"), Dict("Bogus")}
\* The `status__name` entry.
StatusNameValues == {Absent, Str("Planned"), Str("Bogus")}
CableDeviceValues == {Absent, Ref("d1"), Ref("d2"), Obj("d1")}

\* The dictionaries given to !connect_cable.
CableValues ==
    [status : StatusValues, status__name : StatusNameValues,
     device : CableDeviceValues, name : NameValues]

\* Status.objects.get(name=s): the names of the rows found.
Status_get(s) == {x \in Statuses : x = s}

\* query.pop(key)
Pop(query, key) == [query EXCEPT ![key] = Absent]

\* Lines 179-190: the status the cable gets and what is left of the query.
\* status "" stands for None.
resolve_status(value) ==
    LET query == Pop(value, "status")
        status == value.status IN
    IF status.kind \in {"absent", "none"}
    THEN IF query.status__name.kind # "absent"
         THEN LET found == Status_get(query.status__name.v) IN
              IF found = {}
              THEN [error |-> "Status.DoesNotExist", status |-> "", query |-> query]
              ELSE [error |-> "none", status |-> query.status__name.v,
                    query |-> Pop(query, "status__name")]
         ELSE [error |-> "none", status |-> "", query |-> query]
    ELSE IF status.kind = "dict"
         THEN IF Status_get(status.v) = {}
              THEN [error |-> "Status.DoesNotExist", status |-> "", query |-> query]
              ELSE [error |-> "none", status |-> status.v, query |-> query]
         ELSE [error |-> "none", status |-> status.v, query |-> query]

\* Lines 198-207: the Cable ModelInstance built for the deferred attribute.
CableInstance(status, instance, remote) ==
    [model_class |-> "Cable", status |-> status, termination_a |-> instance,
     termination_b_type |-> "dcim.interface", termination_b_id |-> remote]

\* The interface a ModelInstance stands for.
RowOf(instance) == [device |-> instance.device, name |-> instance.name]

\* An attribute() that registers the deferred cable before it has looked
\* up the remote termination.
connect_cable_register_first(value, instance, ifaces, cbls) ==
    LET s == resolve_status(value)
        r == lookup(ifaces, s.query)
        remote == IF r.obj = {} THEN RowOf(instance) ELSE CHOOSE x \in r.obj : TRUE
        registered ==
            [instance EXCEPT
               !.deferred = Append(@, "cable"),
               !.deferred_attributes = [cable |-> <<CableInstance(s.status, RowOf(instance), remote)>>]] IN
    IF s.error # "none"
    THEN [outcome |-> s.error, cause |-> "status lookup", instance |-> instance,
          cables |-> cbls, value |-> value, remote |-> {}]
    ELSE IF s.status = ""
    THEN [outcome |-> "DesignImplementationError", cause |-> "no status", instance |-> instance,
          cables |-> cbls, value |-> value, remote |-> {}]
    ELSE IF r.outcome # "ok"
    THEN [outcome |-> r.outcome, cause |-> r.cause, instance |-> registered,
          cables |-> cbls, value |-> value, remote |-> {}]
    ELSE [outcome |-> "ok", cause |-> "none", instance |-> registered,
          cables |-> cbls, value |-> value, remote |-> r.obj]

\* An attribute() that saves the Cable itself instead of deferring it.
connect_cable_eager(value, instance, ifaces, cbls) ==
    LET s == resolve_status(value)
        r == lookup(ifaces, s.query) IN
    IF s.error # "none"
    THEN [outcome |-> s.error, cause |-> "status lookup", instance |-> instance,
          cables |-> cbls, value |-> value, remote |-> {}]
    ELSE IF s.status = ""
    THEN [outcome |-> "DesignImplementationError", cause |-> "no status", instance |-> instance,
          cables |-> cbls, value |-> value, remote |-> {}]
    ELSE IF r.outcome # "ok"
    THEN [outcome |-> r.outcome, cause |-> r.cause, instance |-> instance,
          cables |-> cbls, value |-> value, remote |-> {}]
    ELSE LET remote == CHOOSE x \in r.obj : TRUE IN
         [outcome |-> "ok", cause |-> "none", instance |-> instance,
          cables |-> cbls \cup {[a |-> RowOf(instance), b |-> remote, status |-> s.status]},
          value |-> value, remote |-> r.obj]

\* CableConnectionExtension.attribute(value, model_instance): the error
\* raised if any, the model instance, the Cable table and the caller's
\* dictionary afterwards. `query = {**value}` is a copy, so pops and the
\* replacements made by lookup() do not reach `value`.
connect_cable(value, instance, ifaces, cbls) ==
    LET s == resolve_status(value)
        r == lookup(ifaces, s.query) IN
    IF s.error # "none"
    THEN [outcome |-> s.error, cause |-> "status lookup", instance |-> instance,
          cables |-> cbls, value |-> value, remote |-> {}]
    ELSE IF s.status = ""
    THEN [outcome |-> "DesignImplementationError", cause |-> "no status", instance |-> instance,
          cables |-> cbls, value |-> value, remote |-> {}]
    ELSE IF r.outcome # "ok"
    THEN [outcome |-> r.outcome, cause |-> r.cause, instance |-> instance,
          cables |-> cbls, value |-> value, remote |-> {}]
    ELSE LET remote == CHOOSE x \in r.obj : TRUE IN
         [outcome |-> "ok", cause |-> "none",
          instance |-> [instance EXCEPT
              !.deferred = Append(@, "cable"),
              !.deferred_attributes =
                  [cable |-> <<CableInstance(s.status, RowOf(instance), remote)>>]],
          cables |-> cbls, value |-> value, remote |-> r.obj]

NoInstance ==
    [phase |-> "none", device |-> "", name |-> "", deferred |-> <<>>,
     deferred_attributes |-> [cable |-> <<>>]]

NoCable ==
    [outcome |-> "none", cause |-> "none", remote |-> {}, value_kept |-> TRUE,
     status_kind |-> "absent", status_name |-> "", before |-> NoInstance, cables_before |-> {}]

\* The builder reaches an interface of the design and wraps it in a
\* ModelInstance; nothing is deferred yet.
BeginInterface(d, n) ==
    /\ mi.phase \in {"none", "saved", "failed"}
    /\ mi' = [phase |-> "new", device |-> d, name |-> n, deferred |-> <<>>,
              deferred_attributes |-> [cable |-> <<>>]]
    /\ lastCable' = NoCable
    /\ UNCHANGED <<cables, interfaces, lastLookup>>

\* The builder evaluates the "!connect_cable" key of the interface. An
\* error ends the work on this interface.
ConnectCable(value) ==
    LET r == connect_cable(value, mi, interfaces, cables) IN
    /\ mi.phase = "new"
    /\ mi' = [r.instance EXCEPT !.phase = IF r.outcome = "ok" THEN "tagged" ELSE "failed"]
    /\ cables' = r.cables
    /\ lastCable' = [outcome |-> r.outcome, cause |-> r.cause, remote |-> r.remote,
                     value_kept |-> (r.value = value),
                     status_kind |-> value.status.kind, status_name |-> value.status__name.v,
                     before |-> mi, cables_before |-> cables]
    /\ UNCHANGED <<interfaces, lastLookup>>

\* The Cable rows after the deferred cables of `instance` are saved:
\* termination_b_type and termination_b_id are create_or_update keys, so a
\* row with that remote end is updated and otherwise a row is created.
SaveDeferred(instance, cbls) ==
    IF instance.deferred_attributes.cable = <<>>
    THEN cbls
    ELSE LET c == instance.deferred_attributes.cable[1] IN
         {x \in cbls : x.b # c.termination_b_id}
            \cup {[a |-> c.termination_a, b |-> c.termination_b_id, status |-> c.status]}

\* ModelInstance.save(): the interface row is written first, then the
\* objects of its deferred attributes.
SaveModelInstance ==
    /\ mi.phase \in {"new", "tagged"}
    /\ Cardinality(SaveDeferred(mi, cables)) <= MaxCables
    /\ interfaces' = interfaces \cup {RowOf(mi)}
    /\ cables' = SaveDeferred(mi, cables)
    /\ mi' = [mi EXCEPT !.phase = "saved"]
    /\ lastCable' = NoCable
    /\ UNCHANGED lastLookup

CableInit ==
    /\ mi = NoInstance
    /\ cables = {}
    /\ lastCable = NoCable

CableNext ==
    \/ \E d \in Devices, n \in Names :
          CreateInterface(d, n) /\ UNCHANGED <<designVars, cableVars, bgpVars, prefixVars, deploymentVars, statusVars>>
    \/ \E d \in Devices, n \in Names :
          BeginInterface(d, n) /\ UNCHANGED <<designVars, bgpVars, prefixVars, deploymentVars, statusVars>>
    \/ \E value \in CableValues :
          ConnectCable(value) /\ UNCHANGED <<designVars, bgpVars, prefixVars, deploymentVars, statusVars>>
    \/ SaveModelInstance /\ UNCHANGED <<designVars, bgpVars, prefixVars, deploymentVars, statusVars>>

(***************************************************************************)
(* contrib/ext.py: BGPPeeringExtension                                     *)
(***************************************************************************)

\* The peer endpoints a design can name.
NumEndpoints == 4
\* Peering rows the table may hold.
MaxPeerings == 2

Endpoints == 1..NumEndpoints
PeeringPks == 1..MaxPeerings

\* An endpoint that is not in the table; 0 stands for None.
NoEndpoint == [exists |-> FALSE, peering |-> 0, peer |-> 0]

\* The values given to !bgp_peering: something that is no dictionary, a
\* dictionary without `endpoint_z`, a dictionary naming two endpoints.
BgpValues ==
    {[kind |-> "notdict", a |-> 0, z |-> 0], [kind |-> "missing_key", a |-> 1, z |-> 0]}
        \cup {v \in [kind : {"dict"}, a : Endpoints, z : Endpoints] : v.a # v.z}

\* peering.endpoints: the endpoints whose peering is p.
EndpointsOf(tbl, p) == {e \in Endpoints : tbl[e].exists /\ tbl[e].peering = p}

\* Peering.endpoint_a and Peering.endpoint_z: the first and the second
\* endpoint of the peering, 0 (None) when there is none.
endpoint_a(tbl, p) ==
    IF EndpointsOf(tbl, p) = {} THEN 0
    ELSE CHOOSE e \in EndpointsOf(tbl, p) : \A f \in EndpointsOf(tbl, p) : e <= f
endpoint_z(tbl, p) ==
    IF Cardinality(EndpointsOf(tbl, p)) < 2 THEN 0
    ELSE CHOOSE e \in EndpointsOf(tbl, p) \ {endpoint_a(tbl, p)} :
            \A f \in EndpointsOf(tbl, p) \ {endpoint_a(tbl, p)} : e <= f

\* A callback that sets both peers but saves only endpoint_a.
post_save_saves_a_only(tbl, p) ==
    LET a == endpoint_a(tbl, p)
        z == endpoint_z(tbl, p) IN
    IF a = 0 \/ z = 0
    THEN [error |-> "AttributeError", table |-> tbl]
    ELSE [error |-> "none", table |-> [tbl EXCEPT ![a].peer = z]]

\* BGPPeeringExtension._post_save on the peering with pk p: the endpoint
\* table afterwards. `endpoint_a.peer, endpoint_z.peer = endpoint_z,
\* endpoint_a`, then both are saved. Setting an attribute of None raises.
_post_save(tbl, p) ==
    LET a == endpoint_a(tbl, p)
        z == endpoint_z(tbl, p) IN
    IF a = 0 \/ z = 0
    THEN [error |-> "AttributeError", table |-> tbl]
    ELSE [error |-> "none", table |-> [tbl EXCEPT ![a].peer = z, ![z].peer = a]]

\* endpoint.instance.peering: the pk, or 0 when reading it raises
\* Peering.DoesNotExist (an endpoint that is not saved has no peering).
PeeringOf(tbl, e) == IF tbl[e].exists THEN tbl[e].peering ELSE 0

\* peering.delete(): the row goes, and with it its endpoints (the foreign
\* key cascades); an endpoint whose peer is deleted has no peer left.
DeletePeering(tbl, p) ==
    LET gone == EndpointsOf(tbl, p) IN
    [e \in Endpoints |->
        IF e \in gone THEN NoEndpoint
        ELSE IF tbl[e].peer \in gone THEN [tbl[e] EXCEPT !.peer = 0]
        ELSE tbl[e]]

\* BGPPeeringExtension.attribute(value, model_instance). The try block
\* reads endpoint_a's peering and then endpoint_z's; when the first read
\* raises, the second is never made and both stay None.
bgp_peering(value, instance, tbl, prs) ==
    IF value.kind # "dict"
    THEN [outcome |-> "DesignImplementationError", instance |-> instance,
          endpoints |-> tbl, peerings |-> prs]
    ELSE
    LET peering_a == PeeringOf(tbl, value.a)
        peering_z == IF peering_a = 0 THEN 0 ELSE PeeringOf(tbl, value.z)
        update_pk == IF peering_a = peering_z THEN peering_a ELSE 0
        after_a == IF peering_a # peering_z /\ peering_a # 0
                   THEN DeletePeering(tbl, peering_a) ELSE tbl
        after_z == IF peering_a # peering_z /\ peering_z # 0
                   THEN DeletePeering(after_a, peering_z) ELSE after_a
        deleted == IF peering_a # peering_z THEN {peering_a, peering_z} ELSE {} IN
    [outcome |-> "ok",
     instance |-> [instance EXCEPT
         !.a = value.a, !.z = value.z, !.update_pk = update_pk,
         !.endpoints = <<value.a, value.z>>,
         !.post_save = Append(@, "BGPPeeringExtension._post_save")],
     endpoints |-> after_z,
     peerings |-> prs \ deleted]

NoPeeringInstance ==
    [phase |-> "none", a |-> 0, z |-> 0, pk |-> 0, update_pk |-> 0, endpoints |-> <<>>,
     post_save |-> <<>>]

NoBgp == [outcome |-> "none", kind |-> "none", callback |-> "none"]

\* The builder reaches a peering of the design and wraps it in a ModelInstance.
BeginPeering ==
    /\ pmi.phase \in {"none", "saved", "failed"}
    /\ pmi' = [NoPeeringInstance EXCEPT !.phase = "new"]
    /\ lastBgp' = NoBgp
    /\ UNCHANGED <<endpoints, peerings>>

\* The builder evaluates the "!bgp_peering" key of the peering.
BgpPeering(value) ==
    LET r == bgp_peering(value, pmi, endpoints, peerings) IN
    /\ pmi.phase = "new"
    /\ pmi' = [r.instance EXCEPT !.phase = IF r.outcome = "ok" THEN "built" ELSE "failed"]
    /\ endpoints' = r.endpoints
    /\ peerings' = r.peerings
    /\ lastBgp' = [outcome |-> r.outcome, kind |-> value.kind, callback |-> "none"]

\* The callbacks connected for POST_SAVE, run in turn.
RECURSIVE RunCallbacks(_, _, _)
RunCallbacks(callbacks, tbl, p) ==
    IF callbacks = <<>> THEN [error |-> "none", table |-> tbl]
    ELSE LET r == _post_save(tbl, p) IN
         IF r.error # "none" THEN r ELSE RunCallbacks(Tail(callbacks), r.table, p)

\* ModelInstance.save() of the peering: the Peering row is created (or the
\* row `!update:pk` names is kept), its two endpoints are saved with that
\* peering, and POST_SAVE is sent to the connected callbacks.
SavePeering ==
    /\ pmi.phase = "built"
    /\ pmi.update_pk # 0 \/ PeeringPks \ peerings # {}
    /\ LET pk == IF pmi.update_pk # 0 THEN pmi.update_pk
                 ELSE CHOOSE p \in PeeringPks \ peerings : \A q \in PeeringPks \ peerings : p <= q
           saved == [e \in Endpoints |->
                        IF e \in {pmi.a, pmi.z}
                        THEN [exists |-> TRUE, peering |-> pk, peer |-> endpoints[e].peer]
                        ELSE endpoints[e]]
           r == RunCallbacks(pmi.post_save, saved, pk) IN
       /\ peerings' = peerings \cup {pk}
       /\ endpoints' = r.table
       /\ pmi' = [pmi EXCEPT !.phase = "saved", !.pk = pk]
       /\ lastBgp' = [outcome |-> "saved", kind |-> "dict", callback |-> r.error]

BgpInit ==
    /\ endpoints = [e \in Endpoints |-> NoEndpoint]
    /\ peerings = {}
    /\ pmi = NoPeeringInstance
    /\ lastBgp = NoBgp

BgpNext ==
    \/ BeginPeering /\ UNCHANGED <<designVars, lookupVars, cableVars, prefixVars, deploymentVars, statusVars>>
    \/ \E value \in BgpValues :
          BgpPeering(value) /\ UNCHANGED <<designVars, lookupVars, cableVars, prefixVars, deploymentVars, statusVars>>
    \/ SavePeering /\ UNCHANGED <<designVars, lookupVars, cableVars, prefixVars, deploymentVars, statusVars>>

(***************************************************************************)
(* contrib/ext.py: NextPrefixExtension                                     *)
(***************************************************************************)

\* Width of an address in bits.
PrefixBits == 2
\* Prefix rows the table may hold.
MaxPrefixes == 3

Addresses == 0..(2^PrefixBits - 1)
Lengths == 0..PrefixBits

\* Number of addresses of a prefix of the given length.
BlockSize(len) == 2^(PrefixBits - len)

\* Every prefix of the address space: the network is a multiple of the size.
AllPrefixes ==
    {pr \in [network : Addresses, prefix_length : Lengths] :
        pr.network % BlockSize(pr.prefix_length) = 0}

\* The addresses of a prefix.
AddrsOf(pr) == pr.network .. (pr.network + BlockSize(pr.prefix_length) - 1)

\* Prefix.get_child_prefixes(): the rows strictly inside the prefix.
get_child_prefixes(db, parent) ==
    {c \in db : c.prefix_length > parent.prefix_length /\ AddrsOf(c) \subseteq AddrsOf(parent)}

\* Prefix.get_available_prefixes(): IPSet(prefix) - IPSet(child prefixes),
\* as the set of its addresses.
get_available_prefixes(db, parent) ==
    AddrsOf(parent) \ UNION {AddrsOf(c) : c \in get_child_prefixes(db, parent)}

\* The CIDR blocks an IPSet of these addresses is kept as: the blocks
\* inside it that no larger block inside it contains.
Cidrs(addrs) ==
    {b \in AllPrefixes :
        /\ AddrsOf(b) \subseteq addrs
        /\ ~\E c \in AllPrefixes :
              /\ c.prefix_length < b.prefix_length
              /\ AddrsOf(b) \subseteq AddrsOf(c)
              /\ AddrsOf(c) \subseteq addrs}

\* Order by network, then by prefix length.
Before(x, y) ==
    \/ x.network < y.network
    \/ x.network = y.network /\ x.prefix_length <= y.prefix_length

\* A set of prefixes as the sequence sorted by Before.
RECURSIVE Sorted(_)
Sorted(S) ==
    IF S = {} THEN <<>>
    ELSE LET first == CHOOSE x \in S : \A y \in S : Before(x, y) IN
         <<first>> \o Sorted(S \ {first})

\* IPSet.iter_cidrs(): the blocks in ascending order.
iter_cidrs(addrs) == Sorted(Cidrs(addrs))

\* The inner loop of _get_next over the available blocks of one parent:
\* the prefix returned, or {} when no block is large enough.
RECURSIVE FirstFit(_, _)
FirstFit(blocks, length) ==
    IF blocks = <<>> THEN {}
    ELSE IF Head(blocks).prefix_length <= length
         THEN {[network |-> Head(blocks).network, prefix_length |-> length]}
         ELSE FirstFit(Tail(blocks), length)

\* A _get_next that takes the first available block whatever its size.
RECURSIVE get_next_any_block(_, _, _)
get_next_any_block(db, parents, length) ==
    IF parents = <<>>
    THEN [outcome |-> "DesignImplementationError", result |-> {}]
    ELSE LET blocks == iter_cidrs(get_available_prefixes(db, Head(parents))) IN
         IF blocks # <<>>
         THEN [outcome |-> "ok",
               result |-> {[network |-> Head(blocks).network, prefix_length |-> length]}]
         ELSE get_next_any_block(db, Tail(parents), length)

\* NextPrefixExtension._get_next(prefixes, length)
RECURSIVE _get_next(_, _, _)
_get_next(db, parents, length) ==
    IF parents = <<>>
    THEN [outcome |-> "DesignImplementationError", result |-> {}]
    ELSE LET fit == FirstFit(iter_cidrs(get_available_prefixes(db, Head(parents))), length) IN
         IF fit # {}
         THEN [outcome |-> "ok", result |-> fit]
         ELSE _get_next(db, Tail(parents), length)

\* A prefix given as text: a CIDR "ip/len", possibly with host bits set and
\* with white space around it, or text that is no CIDR.
Cidr(ip, len, pad) == [body |-> "cidr", ip |-> ip, len |-> len, pad |-> pad]
Garbage == [body |-> "garbage", ip |-> 0, len |-> 0, pad |-> FALSE]

\* prefix_str.strip()
Strip(str) == [str EXCEPT !.pad = FALSE]

\* The broadcast of a network that has none (None).
NoBroadcast == -1

\* netaddr.IPNetwork(text): prefixlen, network and broadcast of the
\* network the address lies in; text that is no CIDR, or that still has
\* white space around it, raises AddrFormatError. A network of one or two
\* addresses (width - prefixlen <= 1) has no broadcast address.
IPNetwork(str) ==
    IF str.body # "cidr" \/ str.pad
    THEN [error |-> "AddrFormatError", prefix_length |-> 0, network |-> 0, broadcast |-> 0]
    ELSE LET net == str.ip - (str.ip % BlockSize(str.len)) IN
         [error |-> "none", prefix_length |-> str.len, network |-> net,
          broadcast |-> IF PrefixBits - str.len <= 1
                        THEN NoBroadcast
                        ELSE net + BlockSize(str.len) - 1]

\* The broadcast column of a row: the last address of the prefix, never NULL.
Broadcast(row) == row.network + BlockSize(row.prefix_length) - 1

\* Lines 264-273: the Q objects of the prefixes, or the error of the first
\* text that does not parse.
RECURSIVE PrefixQ(_)
PrefixQ(items) ==
    IF items = <<>> THEN [error |-> "none", q |-> {}]
    ELSE LET net == IPNetwork(Strip(Head(items)))
             rest == PrefixQ(Tail(items)) IN
         IF net.error # "none" THEN [error |-> net.error, q |-> {}]
         ELSE IF rest.error # "none" THEN rest
         ELSE [error |-> "none",
               q |-> {[prefix_length |-> net.prefix_length, network |-> net.network,
                       broadcast |-> net.broadcast]} \cup rest.q]

\* Prefix.objects.filter(Q(**value) & reduce(or_, prefix_q)): `other` is
\* the prefix_length keyword of value (-1: not given), `anyof` the Q
\* objects of the prefixes, used when value has a `prefix` key. A Q object
\* with broadcast=None asks for a NULL broadcast, which no row has.
FilterPrefixes(db, other, use_q, anyof) ==
    {r \in db :
        /\ other = -1 \/ r.prefix_length = other
        /\ use_q => \E q \in anyof :
              /\ r.prefix_length = q.prefix_length
              /\ r.network = q.network
              /\ q.broadcast # NoBroadcast
              /\ Broadcast(r) = q.broadcast}

\* What the tag raised, or the prefixes it searched and the prefix it returned.
Raised(outcome, cause) ==
    [outcome |-> outcome, cause |-> cause, parents |-> <<>>, result |-> {}]

\* NextPrefixExtension.attribute(value, model_instance). The queryset is
\* in the order of Prefix.Meta.ordering: network, then prefix length.
next_prefix(value, db) ==
    IF value.kind # "dict"
    THEN Raised("DesignImplementationError", "not a dictionary")
    ELSE IF value.length = -1
    THEN Raised("DesignImplementationError", "no length")
    ELSE IF value.prefix.kind = "absent" /\ value.prefix_length = -1
    THEN Raised("DesignImplementationError", "no search criteria")
    ELSE IF value.prefix.kind = "other"
    THEN Raised("DesignImplementationError", "prefix is neither str nor list")
    ELSE
    LET items == value.prefix.items
        pq == PrefixQ(items) IN
    IF value.prefix.kind # "absent" /\ pq.error # "none"
    THEN Raised(pq.error, "netaddr.IPNetwork")
    ELSE IF value.prefix.kind # "absent" /\ items = <<>>
    THEN Raised("TypeError", "reduce() of empty sequence")
    ELSE
    LET parents == Sorted(FilterPrefixes(db, value.prefix_length,
                                          value.prefix.kind # "absent", pq.q))
        r == _get_next(db, parents, value.length) IN
    [outcome |-> r.outcome, cause |-> IF r.outcome = "ok" THEN "none" ELSE "_get_next",
     parents |-> parents, result |-> r.result]

NoPrefixArg == [kind |-> "absent", items |-> <<>>]
NoValue == [kind |-> "none", length |-> -1, prefix |-> NoPrefixArg, prefix_length |-> -1]
NoNextPrefix ==
    [outcome |-> "none", cause |-> "none", parents |-> <<>>, result |-> {},
     value |-> NoValue, before |-> {}]

\* The text of a row as it is stored.
Canonical(pr) == Cidr(pr.network, pr.prefix_length, FALSE)

\* The texts a design gives for a row: the prefix as it is stored, the
\* same with white space around it, an address inside it.
TextsOf(pr) ==
    {Canonical(pr), Cidr(pr.network, pr.prefix_length, TRUE),
     Cidr(pr.network + BlockSize(pr.prefix_length) - 1, pr.prefix_length, FALSE)}

\* The texts tried against a table: those of its rows, a prefix that may
\* not be in it, and text that is no prefix.
TextsFor(db) ==
    UNION {TextsOf(pr) : pr \in db} \cup {Cidr(0, PrefixBits, FALSE), Garbage}

\* The `prefix` entries: missing, a value that is neither str nor list, one
\* text, a list of no, one or two texts.
PrefixArgsFor(db) ==
    {NoPrefixArg, [kind |-> "other", items |-> <<>>], [kind |-> "list", items |-> <<>>]}
        \cup {[kind |-> "str", items |-> <<t>>] : t \in TextsFor(db)}
        \cup {[kind |-> "list", items |-> <<Canonical(pr)>>] : pr \in db}
        \cup {[kind |-> "list", items |-> <<Garbage>>]}
        \cup {[kind |-> "list", items |-> <<Canonical(pr), Canonical(qr)>>] : pr \in db, qr \in db}
        \cup {[kind |-> "list", items |-> <<Canonical(pr), Garbage>>] : pr \in db}

\* The values given to !next_prefix: something that is no dictionary; a
\* dictionary without `length`; a dictionary with `length` and a `prefix`
\* entry, a `prefix_length` entry, both or neither.
NextPrefixValuesFor(db) ==
    {[kind |-> "notdict", length |-> -1, prefix |-> NoPrefixArg, prefix_length |-> -1]}
        \cup [kind : {"dict"}, length : {-1}, prefix : {NoPrefixArg}, prefix_length : {-1, 0}]
        \cup [kind : {"dict"}, length : Lengths, prefix : PrefixArgsFor(db), prefix_length : {-1}]
        \cup [kind : {"dict"}, length : Lengths, prefix : {NoPrefixArg}, prefix_length : Lengths]
        \cup [kind : {"dict"}, length : {PrefixBits},
              prefix : {[kind |-> "str", items |-> <<Canonical(pr)>>] : pr \in db},
              prefix_length : Lengths]

\* Prefix.objects.create(prefix=pr)
CreatePrefix(pr) ==
    /\ lastPrefix.outcome = "none"
    /\ pr \notin prefixes
    /\ Cardinality(prefixes) < MaxPrefixes
    /\ prefixes' = prefixes \cup {pr}
    /\ UNCHANGED lastPrefix

\* The builder evaluates the "!next_prefix" key of a prefix of the design.
NextPrefix(value) ==
    LET r == next_prefix(value, prefixes) IN
    /\ lastPrefix.outcome = "none"
    /\ lastPrefix' = [outcome |-> r.outcome, cause |-> r.cause, parents |-> r.parents,
                      result |-> r.result, value |-> value, before |-> prefixes]
    /\ UNCHANGED prefixes

\* The builder saves the Prefix with the prefix the tag returned.
SaveNextPrefix ==
    /\ lastPrefix.outcome = "ok"
    /\ Cardinality(prefixes \cup lastPrefix.result) <= MaxPrefixes
    /\ prefixes' = prefixes \cup lastPrefix.result
    /\ lastPrefix' = NoNextPrefix

\* The design run ends: after an error, or with the prefix left unsaved.
EndRun ==
    /\ lastPrefix.outcome # "none"
    /\ lastPrefix' = NoNextPrefix
    /\ UNCHANGED prefixes

PrefixInit ==
    /\ prefixes = {}
    /\ lastPrefix = NoNextPrefix

PrefixNext ==
    \/ \E pr \in AllPrefixes :
          CreatePrefix(pr) /\ UNCHANGED <<designVars, lookupVars, cableVars, bgpVars, deploymentVars, statusVars>>
    \/ \E value \in NextPrefixValuesFor(prefixes) :
          NextPrefix(value) /\ UNCHANGED <<designVars, lookupVars, cableVars, bgpVars, deploymentVars, statusVars>>
    \/ SaveNextPrefix /\ UNCHANGED <<designVars, lookupVars, cableVars, bgpVars, deploymentVars, statusVars>>
    \/ EndRun /\ UNCHANGED <<designVars, lookupVars, cableVars, bgpVars, deploymentVars, statusVars>>

(***************************************************************************)
(* models.Deployment, as tests/test_model_deployment.py exercises it       *)
(***************************************************************************)

\* Deployment rows the table may hold.
MaxDeployments == 3
\* Design rows a Deployment can point to.
NumDesigns == 2

DesignPks == 1..NumDesigns
DeploymentNames == {"My Design", "Other"}

\* design.job.name: a Design has one Job, and Job names differ.
JobNameOf(design) == <<"job", design>>

\* Deployment.objects.get_by_natural_key(design_name, name)
get_by_natural_key_deployment(tbl, design_name, name) ==
    {r \in tbl : JobNameOf(r.design) = design_name /\ r.name = name}

\* The rows that hold the unique pair (design, name), the row pk aside.
SameKey(tbl, pk, design, name) ==
    {r \in tbl : r.pk # pk /\ r.design = design /\ r.name = name}

\* A create with no unique constraint on (design, name).
Deployment_create_no_constraint(tbl, design, name) ==
    [error |-> "none",
     table |-> tbl \cup {[pk |-> Cardinality(tbl) + 1, design |-> design, name |-> name]}]

\* Deployment.objects.create(design=design, name=name): the database
\* rejects a second row with the same design and name.
Deployment_create(tbl, design, name) ==
    IF SameKey(tbl, 0, design, name) # {}
    THEN [error |-> "IntegrityError", table |-> tbl]
    ELSE [error |-> "none",
          table |-> tbl \cup {[pk |-> Cardinality(tbl) + 1, design |-> design, name |-> name]}]

\* A validated_save whose clean() does not look at the design.
validated_save_no_design_check(tbl, pk, design, name) ==
    IF design = 0 \/ SameKey(tbl, pk, design, name) # {}
    THEN [error |-> "ValidationError", table |-> tbl]
    ELSE [error |-> "none",
          table |-> {r \in tbl : r.pk # pk} \cup {[pk |-> pk, design |-> design, name |-> name]}]

\* deployment.validated_save() of the saved row pk with the given design
\* (0: None) and name: full_clean() raises ValidationError when the design
\* differs from the stored one or when another row has the same design and
\* name; otherwise the row is written.
validated_save(tbl, pk, design, name) ==
    LET stored == CHOOSE r \in tbl : r.pk = pk IN
    IF design # stored.design
    THEN [error |-> "ValidationError", table |-> tbl]
    ELSE IF SameKey(tbl, pk, design, name) # {}
    THEN [error |-> "ValidationError", table |-> tbl]
    ELSE [error |-> "none",
          table |-> {r \in tbl : r.pk # pk} \cup {[pk |-> pk, design |-> design, name |-> name]}]

NoDeploymentOp ==
    [op |-> "none", error |-> "none", pk |-> 0, design |-> 0, name |-> "", before |-> {}]

\* create_deployment / Deployment.objects.create
CreateDeployment(design, name) ==
    LET r == Deployment_create(deployments, design, name) IN
    /\ Cardinality(deployments) < MaxDeployments
    /\ deployments' = r.table
    /\ lastDeployment' = [op |-> "create", error |-> r.error, pk |-> 0, design |-> design,
                          name |-> name, before |-> deployments]

\* deployment.design = design; deployment.name = name; deployment.validated_save()
ValidatedSave(pk, design, name) ==
    LET r == validated_save(deployments, pk, design, name) IN
    /\ \E row \in deployments : row.pk = pk
    /\ deployments' = r.table
    /\ lastDeployment' = [op |-> "validated_save", error |-> r.error, pk |-> pk,
                          design |-> design, name |-> name, before |-> deployments]

DeploymentInit ==
    /\ deployments = {}
    /\ lastDeployment = NoDeploymentOp

DeploymentNext ==
    \/ \E design \in DesignPks, name \in DeploymentNames :
          /\ CreateDeployment(design, name)
          /\ UNCHANGED <<designVars, lookupVars, cableVars, bgpVars, prefixVars, statusVars>>
    \/ \E pk \in 1..MaxDeployments, design \in {0} \cup DesignPks, name \in DeploymentNames :
          /\ ValidatedSave(pk, design, name)
          /\ UNCHANGED <<designVars, lookupVars, cableVars, bgpVars, prefixVars, statusVars>>

(***************************************************************************)
(* signals.create_design_instance_statuses                                 *)
(***************************************************************************)

\* How many of the names of NameOrder have rows that are created and deleted
\* outside the handler.
NumEditable == 3

\* choices.DesignInstanceStatusChoices, iterated: its (value, label) pairs.
DesignInstanceStatusChoices ==
    << <<"Active", "Active">>, <<"Disabled", "Disabled">>,
       <<"Decommissioned", "Decommissioned">> >>

\* choices.DesignInstanceLiveStateChoices, iterated: its (value, label) pairs.
DesignInstanceLiveStateChoices ==
    << <<"Deployed", "Deployed">>, <<"Pending", "Pending">>,
       <<"Rolled back", "Rolled back">> >>

\* chain(choices.DesignInstanceStatusChoices, choices.DesignInstanceLiveStateChoices)
chain(a, b) == a \o b

\* The status names the handler is to provide.
ChoiceNames ==
    {p[2] : p \in {DesignInstanceStatusChoices[i] : i \in DOMAIN DesignInstanceStatusChoices}
                  \cup {DesignInstanceLiveStateChoices[i] :
                            i \in DOMAIN DesignInstanceLiveStateChoices}}

\* color_mapping
color_mapping ==
    ("Active" :> "green") @@ ("Decommissioned" :> "grey") @@ ("Disabled" :> "grey")
    @@ ("Deployed" :> "green") @@ ("Pending" :> "orange") @@ ("Rolled back" :> "red")

\* content_type = ContentType.objects.get_for_model(DesignInstance)
DesignInstanceContentType == "nautobot_design_builder.designinstance"

\* The content types a Status may be associated with.
StatusContentTypes == {DesignInstanceContentType, "dcim.device"}

\* The names of the rows that come and go outside the handler: a name the
\* handler does not know, then names of both choice sets.
NameOrder ==
    <<"Planned", "Active", "Rolled back", "Pending", "Disabled", "Deployed", "Decommissioned">>

EditableNames ==
    {NameOrder[i] : i \in {j \in DOMAIN NameOrder : j <= NumEditable}}

\* The colours of the rows created outside the handler: one the mapping does
\* not use and one it uses.
UserColors == {"blue", "green"}

NoStatus == [name |-> "", color |-> "", content_types |-> {}]

\* A get_or_create that writes the defaults to the row it found.
Status_update_or_create(tbl, name, defaults) ==
    LET found == {s \in tbl : s.name = name}
        new == [name |-> name, color |-> defaults.color, content_types |-> {}]
    IN  IF found = {}
        THEN [error |-> "none", table |-> tbl \cup {new}, obj |-> new, created |-> TRUE]
        ELSE IF Cardinality(found) = 1
        THEN LET old == CHOOSE s \in found : TRUE
                 obj == [old EXCEPT !.color = defaults.color]
             IN  [error |-> "none", table |-> (tbl \ {old}) \cup {obj}, obj |-> obj,
                  created |-> FALSE]
        ELSE [error |-> "MultipleObjectsReturned", table |-> tbl, obj |-> NoStatus,
              created |-> FALSE]

\* Status.objects.get_or_create(name=name, defaults=defaults): the row with
\* that name as it is, or a new row with the defaults and no content type.
Status_get_or_create(tbl, name, defaults) ==
    LET found == {s \in tbl : s.name = name}
        new == [name |-> name, color |-> defaults.color, content_types |-> {}]
    IN  IF found = {}
        THEN [error |-> "none", table |-> tbl \cup {new}, obj |-> new, created |-> TRUE]
        ELSE IF Cardinality(found) = 1
        THEN [error |-> "none", table |-> tbl, obj |-> CHOOSE s \in found : TRUE,
              created |-> FALSE]
        ELSE [error |-> "MultipleObjectsReturned", table |-> tbl, obj |-> NoStatus,
              created |-> FALSE]

\* status.content_types.add(content_type)
content_types_add(tbl, status, content_type) ==
    (tbl \ {status}) \cup {[status EXCEPT !.content_types = @ \cup {content_type}]}

\* The for loop of the handler over the remaining (value, label) pairs; an
\* exception ends it and leaves the rows written so far.
RECURSIVE for_status_name(_, _, _)
for_status_name(tbl, pairs, content_type) ==
    IF pairs = <<>>
    THEN [error |-> "none", table |-> tbl]
    ELSE LET status_name == Head(pairs)[2] IN
         IF status_name \notin DOMAIN color_mapping
         THEN [error |-> "KeyError", table |-> tbl]
         ELSE LET r == Status_get_or_create(tbl, status_name,
                                            [color |-> color_mapping[status_name]])
              IN  IF r.error # "none"
                  THEN [error |-> r.error, table |-> tbl]
                  ELSE for_status_name(content_types_add(r.table, r.obj, content_type),
                                       Tail(pairs), content_type)

\* create_design_instance_statuses(**kwargs)
create_design_instance_statuses(tbl) ==
    for_status_name(tbl, chain(DesignInstanceStatusChoices, DesignInstanceLiveStateChoices),
                    DesignInstanceContentType)

NoStatusOp == [op |-> "none", error |-> "none", before |-> {}]

\* A Status is created outside the handler; Status.name is unique.
CreateStatus(name, color, content_types) ==
    /\ \A s \in statuses : s.name # name
    /\ statuses' = statuses \cup {[name |-> name, color |-> color,
                                   content_types |-> content_types]}
    /\ lastStatus' = [op |-> "create", error |-> "none", before |-> statuses]

\* A Status is deleted outside the handler.
DeleteStatus(row) ==
    /\ row \in statuses
    /\ row.name \in EditableNames
    /\ statuses' = statuses \ {row}
    /\ lastStatus' = [op |-> "delete", error |-> "none", before |-> statuses]

\* nautobot_database_ready is sent and the receiver runs.
DatabaseReady ==
    LET r == create_design_instance_statuses(statuses) IN
    /\ statuses' = r.table
    /\ lastStatus' = [op |-> "handler", error |-> r.error, before |-> statuses]

StatusInit ==
    /\ statuses = {}
    /\ lastStatus = NoStatusOp

StatusNext ==
    \/ \E name \in EditableNames, color \in UserColors, cts \in SUBSET StatusContentTypes :
          /\ CreateStatus(name, color, cts)
          /\ UNCHANGED <<designVars, lookupVars, cableVars, bgpVars, prefixVars, deploymentVars>>
    \/ \E row \in statuses :
          /\ DeleteStatus(row)
          /\ UNCHANGED <<designVars, lookupVars, cableVars, bgpVars, prefixVars, deploymentVars>>
    \/ /\ DatabaseReady
       /\ UNCHANGED <<designVars, lookupVars, cableVars, bgpVars, prefixVars, deploymentVars>>

Init ==
    /\ DesignInit /\ LookupInit /\ CableInit /\ BgpInit /\ PrefixInit /\ DeploymentInit
    /\ StatusInit

SpecDesign == Init /\ [][DesignNext]_vars

SpecLookup == Init /\ [][LookupNext]_vars

SpecCable == Init /\ [][CableNext]_vars

SpecBgp == Init /\ [][BgpNext]_vars

SpecPrefix == Init /\ [][PrefixNext]_vars

SpecDeployment == Init /\ [][DeploymentNext]_vars

SpecStatus == Init /\ [][StatusNext]_vars

\* C1: after any sequence of Job saves there is exactly one Design for every
\* saved Job whose job_class is a DesignJob subclass, never more than one
\* Design per Job, and a save of a Job whose job_class is missing or is no
\* DesignJob subclass creates no Design.
C1_OneDesignPerDesignJob ==
    /\ \A j \in Jobs :
          /\ Cardinality(DesignsOf(designs, j)) <= 1
          /\ (jobs[j] # "unsaved" /\ IsDesignJobSubclass(jobs[j]))
                => Cardinality(DesignsOf(designs, j)) = 1
    /\ (lastSave.job # 0 /\ ~IsDesignJobSubclass(lastSave.job_class))
          => (designs = lastSave.before /\ ~lastSave.created)
    /\ lastSave.error = "none"

\* A DesignJob saved again after its Design exists: nothing was created.
C1_Witness ==
    /\ lastSave.job # 0
    /\ IsDesignJobSubclass(lastSave.job_class)
    /\ ~lastSave.created
    /\ Cardinality(DesignsOf(designs, lastSave.job)) = 1
    /\ \E k \in Jobs : jobs[k] \in {"None", "PlainJob"} /\ DesignsOf(designs, k) = {}

\* C5: lookup returns an object only when exactly one object matches the
\* query, and then that object; with no match or with several matches it
\* raises DesignImplementationError; the table is the same afterwards.
C5_SingleObjectLookup ==
    lastLookup.op = "lookup" =>
        /\ interfaces = lastLookup.before
        /\ lastLookup.outcome \in {"ok", "DesignImplementationError"}
        /\ (lastLookup.outcome = "ok") <=> (lastLookup.matched = 1)
        /\ lastLookup.outcome = "ok" =>
              lastLookup.obj = Filter(lastLookup.before, lastLookup.query)
        /\ lastLookup.outcome # "ok" => lastLookup.obj = {}
        /\ lastLookup.matched = 0 => lastLookup.cause = "ObjectDoesNotExist"
        /\ lastLookup.matched > 1 => lastLookup.cause = "MultipleObjectsReturned"

\* A lookup that raised because two interfaces match the query.
C5_Witness ==
    /\ lastLookup.op = "lookup"
    /\ lastLookup.matched = 2
    /\ lastLookup.outcome = "DesignImplementationError"
    /\ lastLookup.given.device.kind = "ref"

\* C6: lookup_by_content_type raises DesignImplementationError when no
\* content type has the given app_label and model_name.
C6_MissingContentTypeRaisesDIE ==
    (lastLookup.op = "lookup_by_content_type" /\ ~lastLookup.found_ct)
        => lastLookup.outcome = "DesignImplementationError"

\* C2: a successful !connect_cable saves no Cable: it leaves the Cable
\* table as it was and registers the cable as deferred on the model
\* instance ("cable" in deferred, deferred_attributes["cable"] holding one
\* Cable instance from this model instance to the remote termination that
\* was looked up), so every Cable row has a termination_a that is saved.
C2_CableIsDeferred ==
    /\ lastCable.outcome = "ok" =>
          /\ cables = lastCable.cables_before
          /\ \E i \in 1..Len(mi.deferred) : mi.deferred[i] = "cable"
          /\ Len(mi.deferred_attributes.cable) = 1
          /\ mi.deferred_attributes.cable[1].model_class = "Cable"
          /\ mi.deferred_attributes.cable[1].termination_a = RowOf(mi)
          /\ mi.deferred_attributes.cable[1].termination_b_type = "dcim.interface"
          /\ {mi.deferred_attributes.cable[1].termination_b_id} = lastCable.remote
          /\ lastCable.remote \subseteq interfaces
    /\ \A c \in cables : c.a \in interfaces

\* The tag succeeded on an interface that is not saved yet, and a cable of
\* an earlier interface is in the table.
C2_Witness ==
    /\ lastCable.outcome = "ok"
    /\ mi.phase = "tagged"
    /\ RowOf(mi) \notin interfaces
    /\ cables # {}

\* C8: !connect_cable raises DesignImplementationError when no status is
\* given; whenever it raises, the model instance's deferred list and
\* deferred_attributes and the caller's dictionary are what they were.
C8_RaiseLeavesInstanceUntouched ==
    /\ (lastCable.outcome # "none" /\ lastCable.status_kind \in {"absent", "none"}
           /\ lastCable.status_name = "")
          => (lastCable.outcome = "DesignImplementationError" /\ lastCable.cause = "no status")
    /\ lastCable.cause \in {"ObjectDoesNotExist", "MultipleObjectsReturned"}
          => lastCable.outcome = "DesignImplementationError"
    /\ lastCable.outcome \notin {"none", "ok"} =>
          /\ mi.deferred = lastCable.before.deferred
          /\ mi.deferred_attributes = lastCable.before.deferred_attributes
          /\ lastCable.value_kept
          /\ cables = lastCable.cables_before

\* The tag raised because two interfaces match the remote query.
C8_Witness ==
    /\ lastCable.outcome = "DesignImplementationError"
    /\ lastCable.cause = "MultipleObjectsReturned"
    /\ mi.phase = "failed"

\* C3: every successful evaluation of !bgp_peering connects _post_save to
\* the peering's model instance, and once the peering is saved and the
\* callback has run, both endpoints are rows of that peering and each is
\* stored as the other's peer.
C3_SymmetricPeers ==
    /\ lastBgp.outcome = "ok" =>
          /\ pmi.phase = "built"
          /\ \E i \in 1..Len(pmi.post_save) :
                pmi.post_save[i] = "BGPPeeringExtension._post_save"
          /\ pmi.endpoints = <<pmi.a, pmi.z>>
    /\ pmi.phase = "saved" =>
          /\ lastBgp.callback = "none"
          /\ endpoints[pmi.a].exists /\ endpoints[pmi.z].exists
          /\ endpoints[pmi.a].peering = pmi.pk /\ endpoints[pmi.z].peering = pmi.pk
          /\ endpoints[pmi.a].peer = pmi.z
          /\ endpoints[pmi.z].peer = pmi.a

\* A saved peering one of whose endpoints was taken from an older peering:
\* its former peer still exists, and still names it.
C3_Witness ==
    /\ pmi.phase = "saved"
    /\ endpoints[pmi.a].peer = pmi.z
    /\ endpoints[pmi.z].peer = pmi.a
    /\ \E e \in Endpoints \ {pmi.a, pmi.z} :
          endpoints[e].exists /\ endpoints[e].peer \in {pmi.a, pmi.z}

\* The prefixes of the given length inside a parent that overlap none of
\* the rows inside that parent.
FreeCandidates(db, parent, length) ==
    {b \in AllPrefixes :
        /\ b.prefix_length = length
        /\ AddrsOf(b) \subseteq AddrsOf(parent)
        /\ \A c \in db :
              (c.prefix_length > parent.prefix_length /\ AddrsOf(c) \subseteq AddrsOf(parent))
                 => AddrsOf(c) \cap AddrsOf(b) = {}}

\* C4: when !next_prefix reaches _get_next, it returns a prefix exactly
\* when some matched parent has room for a prefix of the requested length
\* and raises DesignImplementationError otherwise; the prefix returned has
\* the requested length, lies in the first matched parent that has room,
\* overlaps no row inside that parent, and is the lowest such prefix.
C4_NextAvailablePrefix ==
    (lastPrefix.outcome = "ok" \/ lastPrefix.cause = "_get_next") =>
        LET db == lastPrefix.before
            parents == lastPrefix.parents
            length == lastPrefix.value.length
            roomy == {i \in 1..Len(parents) : FreeCandidates(db, parents[i], length) # {}} IN
        /\ lastPrefix.outcome \in {"ok", "DesignImplementationError"}
        /\ (lastPrefix.outcome = "ok") <=> (roomy # {})
        /\ lastPrefix.outcome # "ok" => lastPrefix.result = {}
        /\ lastPrefix.outcome = "ok" =>
              /\ Cardinality(lastPrefix.result) = 1
              /\ \A res \in lastPrefix.result :
                    LET i == CHOOSE k \in roomy : \A m \in roomy : k <= m IN
                    /\ res.prefix_length = length
                    /\ res \in FreeCandidates(db, parents[i], length)
                    /\ \A b \in FreeCandidates(db, parents[i], length) : res.network <= b.network

\* Two parents matched; the first has a free block, but none that can hold
\* the requested length, and the prefix returned lies in the second.
C4_Witness ==
    /\ lastPrefix.outcome = "ok"
    /\ Len(lastPrefix.parents) = 2
    /\ get_available_prefixes(lastPrefix.before, lastPrefix.parents[1]) # {}
    /\ FreeCandidates(lastPrefix.before, lastPrefix.parents[1], lastPrefix.value.length) = {}
    /\ \A res \in lastPrefix.result : AddrsOf(res) \subseteq AddrsOf(lastPrefix.parents[2])

\* C7: !next_prefix raises DesignImplementationError when value is no
\* dictionary, when no length is given, when the prefix is improperly
\* formatted (neither str nor list, or text that is no CIDR prefix) and
\* when there are no query arguments (an empty list of prefixes included).
C7_BadArgumentsRaiseDIE ==
    LET value == lastPrefix.value
        improper ==
            \/ value.prefix.kind = "other"
            \/ \E i \in 1..Len(value.prefix.items) : value.prefix.items[i].body = "garbage"
        no_arguments ==
            \/ value.prefix.kind = "absent" /\ value.prefix_length = -1
            \/ value.prefix.kind = "list" /\ value.prefix.items = <<>> IN
    (lastPrefix.outcome # "none"
        /\ (value.kind # "dict" \/ value.length = -1 \/ improper \/ no_arguments))
      => (lastPrefix.outcome = "DesignImplementationError" /\ lastPrefix.result = {})

\* C9: no two Deployments share a design and a name, so a natural key
\* (design job name, deployment name) finds at most one row and finds the
\* row of every Deployment; creating a Deployment with the design and name
\* of an existing one raises IntegrityError and leaves the table as it was.
C9_UniqueDesignAndName ==
    /\ \A r1, r2 \in deployments :
          (r1.design = r2.design /\ r1.name = r2.name) => r1 = r2
    /\ \A r \in deployments :
          get_by_natural_key_deployment(deployments, JobNameOf(r.design), r.name) = {r}
    /\ (lastDeployment.op = "create"
          /\ SameKey(lastDeployment.before, 0, lastDeployment.design, lastDeployment.name) # {})
         => (lastDeployment.error = "IntegrityError" /\ deployments = lastDeployment.before)

\* A create that was rejected because a row with that design and name exists.
C9_Witness ==
    /\ lastDeployment.op = "create"
    /\ lastDeployment.error = "IntegrityError"
    /\ Cardinality(deployments) >= 2

\* C10: a validated_save of a saved Deployment with another design, None
\* included, raises ValidationError and leaves the stored rows as they were.
C10_DesignCannotBeChanged ==
    (lastDeployment.op = "validated_save"
       /\ \E r \in lastDeployment.before :
             r.pk = lastDeployment.pk /\ r.design # lastDeployment.design)
      => (lastDeployment.error = "ValidationError" /\ deployments = lastDeployment.before)

\* A validated_save with design None was refused after an earlier one that
\* renamed a Deployment went through.
C10_Witness ==
    /\ lastDeployment.op = "validated_save"
    /\ lastDeployment.design = 0
    /\ lastDeployment.error = "ValidationError"
    /\ \E r \in deployments : r.name = "Other"

\* C11: after create_design_instance_statuses has run, every status name of
\* DesignInstanceStatusChoices and DesignInstanceLiveStateChoices is the name
\* of exactly one Status, and that Status is associated with the
\* DesignInstance content type; every Status that existed before the run is
\* still there with its colour and its content types, every Status the run
\* added has a listed name and the colour of the mapping, and running the
\* handler again raises nothing and leaves the table as it is.
C11_StatusesBootstrapped ==
    (lastStatus.op = "handler") =>
        /\ lastStatus.error = "none"
        /\ \A n \in ChoiceNames :
              /\ Cardinality({s \in statuses : s.name = n}) = 1
              /\ \A s \in statuses :
                    s.name = n => DesignInstanceContentType \in s.content_types
        /\ \A old \in lastStatus.before :
              \E s \in statuses :
                 /\ s.name = old.name
                 /\ s.color = old.color
                 /\ old.content_types \subseteq s.content_types
        /\ \A s \in statuses :
              \/ \E old \in lastStatus.before : old.name = s.name
              \/ /\ s.name \in ChoiceNames
                 /\ s.color = color_mapping[s.name]
                 /\ s.content_types = {DesignInstanceContentType}
        /\ Cardinality(statuses)
              = Cardinality({s.name : s \in statuses \cup lastStatus.before}
                            \cup ChoiceNames)
        /\ create_design_instance_statuses(statuses)
              = [error |-> "none", table |-> statuses]

\* The handler has run again on a table that already had every listed name:
\* nothing changed, and the "Active" Status that was created with another
\* colour before the first run still has that colour.
C11_Witness ==
    /\ lastStatus.op = "handler"
    /\ lastStatus.before = statuses
    /\ \E s \in statuses :
          /\ s.name = "Active"
          /\ s.color = "blue"
          /\ s.content_types = {DesignInstanceContentType, "dcim.device"}
    /\ \E s \in statuses : s.name = "Planned"

====
